---------------------------- MODULE Spec2Model ----------------------------
(***************************************************************************)
(* postgres-backup: the backup orchestrator (src/utils/backup.ts) and the  *)
(* command handlers of the CLI (src/index.ts).                             *)
(*                                                                         *)
(* Strings are sequences of one-character strings, so that endsWith,       *)
(* toLowerCase and parseInt are computed character by character.           *)
(* One action is one turn of the JavaScript event loop: the code that runs *)
(* from an I/O event (command start, answer typed, child process exit,     *)
(* cron firing) up to the next await that has to wait for I/O.             *)
(***************************************************************************)
EXTENDS Integers, Sequences, FiniteSets, TLC

(***************************************************************************)
(* Bounds of the model.                                                    *)
(***************************************************************************)
MaxSelectLen == 2    \* length of the answer typed at the Select prompt
MaxConfirmLen == 2   \* length of the answer typed at the Confirm prompt
MaxFirings == 2      \* firings of the daily trigger that are followed
MaxClock == 1        \* latest instant (ms) at which the backup command runs
MaxApiCalls == 2     \* direct restoreBackup calls of a library client
MaxConstructs == 2   \* orchestrators a library client constructs on one root

(***************************************************************************)
(* Strings.                                                                *)
(***************************************************************************)
UpperLetters == <<"A","B","C","D","E","F","G","H","I","J","K","L","M",
                  "N","O","P","Q","R","S","T","U","V","W","X","Y","Z">>
LowerLetters == <<"a","b","c","d","e","f","g","h","i","j","k","l","m",
                  "n","o","p","q","r","s","t","u","v","w","x","y","z">>
DecDigits == <<"0","1","2","3","4","5","6","7","8","9">>
WhiteSpace == {" ", "\t", "\n", "\r"}

IndexOf(seq, ch) ==
    IF \E i \in 1..Len(seq) : seq[i] = ch
    THEN CHOOSE i \in 1..Len(seq) : seq[i] = ch
    ELSE 0

\* String.prototype.toLowerCase, one character
LowerChar(ch) ==
    IF IndexOf(UpperLetters, ch) > 0 THEN LowerLetters[IndexOf(UpperLetters, ch)] ELSE ch

\* String.prototype.toLowerCase
toLowerCase(s) == [i \in 1..Len(s) |-> LowerChar(s[i])]

\* String.prototype.includes
includes(s, part) ==
    \E i \in 1..Len(s) : i + Len(part) - 1 <= Len(s)
                         /\ SubSeq(s, i, i + Len(part) - 1) = part

\* String.prototype.endsWith
endsWith(s, suffix) ==
    /\ Len(s) >= Len(suffix)
    /\ SubSeq(s, Len(s) - Len(suffix) + 1, Len(s)) = suffix

\* value of a digit in radix R, -1 when ch is no digit of that radix
DigitVal(ch, R) ==
    LET d == IF IndexOf(DecDigits, ch) > 0 THEN IndexOf(DecDigits, ch) - 1
             ELSE IF IndexOf(LowerLetters, LowerChar(ch)) > 0
                  THEN IndexOf(LowerLetters, LowerChar(ch)) + 9
                  ELSE -1
    IN  IF d >= 0 /\ d < R THEN d ELSE -1

\* JavaScript numbers as far as the selection needs them: NaN or an integer
NaN == [nan |-> TRUE, val |-> 0]
Num(v) == [nan |-> FALSE, val |-> v]

RECURSIVE TrimStart(_)
TrimStart(s) ==
    IF Len(s) > 0 /\ Head(s) \in WhiteSpace THEN TrimStart(Tail(s)) ELSE s

\* the longest prefix of s made of radix-R digits, as a number, after acc
RECURSIVE DigitsValue(_, _, _)
DigitsValue(s, R, acc) ==
    IF Len(s) = 0 \/ DigitVal(Head(s), R) < 0 THEN acc
    ELSE DigitsValue(Tail(s), R, acc * R + DigitVal(Head(s), R))

\* Number.parseInt(string) with no radix argument (ECMA-262 19.2.5)
parseInt(string) ==
    LET s0 == TrimStart(string)
        sign == IF Len(s0) > 0 /\ Head(s0) = "-" THEN -1 ELSE 1
        s1 == IF Len(s0) > 0 /\ Head(s0) \in {"+", "-"} THEN Tail(s0) ELSE s0
        hex == Len(s1) >= 2 /\ s1[1] = "0" /\ s1[2] \in {"x", "X"}
        R == IF hex THEN 16 ELSE 10
        s2 == IF hex THEN SubSeq(s1, 3, Len(s1)) ELSE s1
    IN  IF Len(s2) = 0 \/ DigitVal(Head(s2), R) < 0 THEN NaN
        ELSE Num(sign * DigitsValue(s2, R, 0))


\* the part of a path after its last separator (path.basename)
RECURSIVE basename(_)
basename(p) ==
    IF IndexOf(p, "/") = 0 THEN p
    ELSE basename(SubSeq(p, IndexOf(p, "/") + 1, Len(p)))

\* path.join of a directory and a name
join(dir, file) == dir \o <<"/">> \o file

Digits2(n) == <<DecDigits[((n \div 10) % 10) + 1], DecDigits[(n % 10) + 1]>>
Digits3(n) == <<DecDigits[((n \div 100) % 10) + 1]>> \o Digits2(n)

DayMs == 86400000

\* Date.prototype.toISOString of the instant t milliseconds after
\* 2024-01-01T00:00:00.000Z, for the instants of January 2024
toISOString(t) ==
    <<"2","0","2","4","-","0","1","-">> \o Digits2((t \div DayMs) + 1)
    \o <<"T">> \o Digits2((t \div 3600000) % 24)
    \o <<":">> \o Digits2((t \div 60000) % 60)
    \o <<":">> \o Digits2((t \div 1000) % 60)
    \o <<".">> \o Digits3(t % 1000) \o <<"Z">>

\* a replace that leaves the string as it is
keepColonsAndPeriods(s) == s

\* String.prototype.replace(/[:.]/g, "-")
replaceColonsAndPeriods(s) ==
    [i \in 1..Len(s) |-> IF s[i] \in {":", "."} THEN "-" ELSE s[i]]

(***************************************************************************)
(* Names on disk.                                                          *)
(***************************************************************************)
BackupSuffix == <<".","b","a","c","k","u","p">>
SqlSuffix == <<".","s","q","l">>
BackupInfix == <<"-","b","a","c","k","u","p","-">>
UnknownDb == <<"u","n","k","n","o","w","n","-","d","b">>

\* process.env.BACKUP_DIR || "./backups", as path.join normalises it
backupDir == <<"b","a","c","k","u","p","s">>
sqlDir == join(backupDir, <<"s","q","l">>)

\* database identifiers the constructor may have derived
DbNames == {UnknownDb, <<"a","p","p">>}

ABackup == <<"a">> \o BackupSuffix
BBackup == <<"b">> \o BackupSuffix
ASql == <<"a">> \o SqlSuffix
CBackupx == <<"c">> \o BackupSuffix \o <<"x">>

\* what the two directories may hold when the process starts, in readdir
\* order: nothing; no custom-format artifact but a file of the other kind;
\* one artifact of each kind; two custom-format artifacts among other files
InitDisks ==
    { [root |-> <<>>, sql |-> <<>>],
      [root |-> <<ASql>>, sql |-> <<ABackup>>],
      [root |-> <<ABackup>>, sql |-> <<ASql>>],
      [root |-> <<CBackupx, BBackup, ASql, ABackup>>, sql |-> <<ABackup, ASql>>] }

(***************************************************************************)
(* new URL(dbUrl), for the schemes that are not special (postgres:,        *)
(* postgresql:, here pg:) and strings without characters that the parser   *)
(* would percent-encode or normalise.                                      *)
(***************************************************************************)
IsAlpha(ch) == IndexOf(LowerLetters, LowerChar(ch)) > 0
IsDigit(ch) == IndexOf(DecDigits, ch) > 0
IsSchemeChar(ch) == IsAlpha(ch) \/ IsDigit(ch) \/ ch \in {"+", "-", "."}

\* position of the first element of s that is in `stops`, Len(s)+1 if none
RECURSIVE FirstOf(_, _, _)
FirstOf(s, stops, i) ==
    IF i > Len(s) \/ s[i] \in stops THEN i ELSE FirstOf(s, stops, i + 1)

\* position of the last element of s equal to ch, 0 if none
RECURSIVE LastIndexOf(_, _, _)
LastIndexOf(s, ch, i) ==
    IF i = 0 \/ s[i] = ch THEN i ELSE LastIndexOf(s, ch, i - 1)

ForbiddenHostChars == {" ", "#", "/", "<", ">", "?", "@", "[", "\\", "]", "^", "|"}

\* the host and port of an authority are acceptable
ValidAuthority(authority) ==
    LET at == LastIndexOf(authority, "@", Len(authority))
        hostport == SubSeq(authority, at + 1, Len(authority))
        colon == LastIndexOf(hostport, ":", Len(hostport))
        host == IF colon = 0 THEN hostport ELSE SubSeq(hostport, 1, colon - 1)
        port == IF colon = 0 THEN <<>>
                ELSE SubSeq(hostport, colon + 1, Len(hostport))
    IN  /\ \A i \in 1..Len(host) : host[i] \notin ForbiddenHostChars
        /\ \A i \in 1..Len(port) : IsDigit(port[i])
        /\ DigitsValue(port, 10, 0) <= 65535

\* new URL(s): whether it parses, and its pathname
parseUrl(s) ==
    LET colon == FirstOf(s, {":"}, 1)
        schemeOk == /\ colon <= Len(s) /\ colon > 1
                    /\ IsAlpha(s[1])
                    /\ \A i \in 1..(colon - 1) : IsSchemeChar(s[i])
        rest == SubSeq(s, colon + 1, Len(s))
        hier == Len(rest) >= 2 /\ rest[1] = "/" /\ rest[2] = "/"
        afterSlashes == SubSeq(rest, 3, Len(rest))
        authEnd == FirstOf(afterSlashes, {"/", "?", "#"}, 1)
        authority == SubSeq(afterSlashes, 1, authEnd - 1)
        tail == IF hier THEN SubSeq(afterSlashes, authEnd, Len(afterSlashes))
                        ELSE rest
        pathname == SubSeq(tail, 1, FirstOf(tail, {"?", "#"}, 1) - 1)
    IN  IF ~schemeOk THEN [ok |-> FALSE, pathname |-> <<>>]
        ELSE IF hier /\ ~ValidAuthority(authority)
             THEN [ok |-> FALSE, pathname |-> <<>>]
             ELSE [ok |-> TRUE, pathname |-> pathname]

\* String.prototype.slice(1)
slice1(s) == SubSeq(s, 2, Len(s))

\* an extractDbName whose parse failure is not caught
extractDbNameNoCatch(dbUrl) ==
    IF parseUrl(dbUrl).ok
    THEN [thrown |-> FALSE,
          value |-> IF slice1(parseUrl(dbUrl).pathname) # <<>>
                    THEN slice1(parseUrl(dbUrl).pathname) ELSE UnknownDb]
    ELSE [thrown |-> TRUE, value |-> <<>>]

\* backup.ts 21-29
extractDbName(dbUrl) ==
    IF parseUrl(dbUrl).ok
    THEN [thrown |-> FALSE,
          value |-> IF slice1(parseUrl(dbUrl).pathname) # <<>>
                    THEN slice1(parseUrl(dbUrl).pathname) ELSE UnknownDb]
    ELSE [thrown |-> FALSE, value |-> UnknownDb]

\* process.env.DATABASE_URL || "": connection strings
UrlPrefix == <<"p","g",":","/","/","h">>
App == <<"a","p","p">>
UrlAbsent == <<>>
UrlNoScheme == <<"d","b">>
UrlPlain == UrlPrefix \o <<"/">> \o App
UrlFull == <<"p","g",":","/","/","u",":","w","@","h",":","5">> \o <<"/">> \o App
           \o <<"?","s","=","1">>
UrlBadPort == UrlPrefix \o <<":","x","/">> \o App
UrlSlash == UrlPrefix \o <<"/">>
UrlNoPath == UrlPrefix
UrlNested == UrlPrefix \o <<"/","a","/","b">>
UrlOpaque == <<"p","g",":">> \o App
UrlEmptyHost == <<"p","g",":","/","/","/">> \o App
DbUrls == { UrlAbsent, UrlNoScheme, UrlPlain, UrlFull, UrlBadPort, UrlSlash,
            UrlNoPath, UrlNested, UrlOpaque, UrlEmptyHost }

\* the connection strings of the processes that are followed further
MainUrls == { UrlAbsent, UrlPlain }

\* backup.ts 31-38, on the set of directories that exist: mkdirSync fails
\* for the directories in `denied`
createDirectoriesStep(st, dir, denied) ==
    IF st.thrown \/ dir \in st.dirs THEN st
    ELSE IF dir \in denied THEN [st EXCEPT !.thrown = TRUE]
    ELSE [st EXCEPT !.dirs = @ \cup {dir, backupDir}]

\* a createDirectories that creates without looking and not recursively
createDirectoriesNoCheck(existing, denied) ==
    LET mk(st, dir) == IF st.thrown THEN st
                       ELSE IF dir \in st.dirs \/ dir \in denied
                            THEN [st EXCEPT !.thrown = TRUE]
                            ELSE [st EXCEPT !.dirs = @ \cup {dir}]
    IN  mk(mk([thrown |-> FALSE, dirs |-> existing], backupDir), sqlDir)

\* a createDirectories that leaves out the sql subdirectory
createDirectoriesRootOnly(existing, denied) ==
    createDirectoriesStep([thrown |-> FALSE, dirs |-> existing], backupDir, denied)

\* backup.ts 31-38
createDirectories(existing, denied) ==
    createDirectoriesStep(
        createDirectoriesStep([thrown |-> FALSE, dirs |-> existing],
                              backupDir, denied),
        sqlDir, denied)

\* backup.ts 14-19: the constructor; dbName is assigned only if
\* createDirectories returned
construct(url, existing, denied) ==
    LET d == createDirectories(existing, denied)
        n == extractDbName(url)
    IN  [url |-> url, denied |-> denied, before |-> existing, after |-> d.dirs,
         thrown |-> d.thrown \/ n.thrown,
         cause |-> IF d.thrown THEN "mkdir" ELSE IF n.thrown THEN "url" ELSE "none",
         dbName |-> IF d.thrown \/ n.thrown THEN <<>> ELSE n.value]

\* what a library client may hand to restoreBackup
Foo == <<"f","o","o">>
CleanRestorePaths == { Foo \o BackupSuffix, BackupSuffix,
                       join(backupDir, ABackup),
                       Foo \o SqlSuffix \o BackupSuffix }
PlainSqlPaths == { Foo, Foo \o SqlSuffix, Foo \o BackupSuffix \o <<"x">>,
                   Foo \o BackupSuffix \o SqlSuffix, join(backupDir, ASql),
                   <<"b","a","c","k","u","p">>, <<>> }
ApiPaths == CleanRestorePaths \cup PlainSqlPaths

SelectChars == {"q", "Q", "0", "1", "2", "3", "-", "x", " "}
ConfirmChars == {"y", "Y", "n", "e"}

RECURSIVE StringsUpTo(_, _)
StringsUpTo(chars, n) ==
    IF n = 0 THEN { <<>> }
    ELSE LET shorter == StringsUpTo(chars, n - 1)
         IN  shorter \cup { Append(s, ch) : s \in shorter, ch \in chars }

SelectAnswers == StringsUpTo(SelectChars, MaxSelectLen)
ConfirmAnswers == StringsUpTo(ConfirmChars, MaxConfirmLen)


(***************************************************************************)
(* State.                                                                  *)
(***************************************************************************)
VARIABLES
    rootFiles,      \* names in the root backup directory, in readdir order
    sqlFiles,       \* names in the sql subdirectory, in readdir order
    dbName,         \* PostgresBackup.dbName
    clock,          \* the last instant read by new Date()
    cmd,            \* the command program.parse dispatched
    hpc,            \* where the command handler stands
    escaped,        \* handlers and callbacks an exception came out of
    log,            \* what logger.info and logger.error recorded
    out,            \* what console.log printed
    calls,          \* the createBackup invocations of this process
    registered,     \* the cron trigger is registered
    firings,        \* firings of the trigger so far
    rl,             \* the readline interface of the restore session
    backups,        \* restore session: const backups
    answer,         \* restore session: const answer
    selection,      \* restore session: const selection
    selectedBackup, \* restore session: const selectedBackup
    confirmation,   \* restore session: const confirmation
    prompts,        \* questions asked through rl.question
    fsFault,        \* the filesystem failure this run meets, if any
    execs,          \* the restoreBackup invocations and their child process
    dirs,           \* the directories that exist, of backupDir and sqlDir
    content,        \* of each artifact path: who wrote the file, and whether
                    \* to the end
    ctors,          \* the `new PostgresBackup(...)` evaluations so far
    listing         \* list command: the option and `const files`

fsVars == <<rootFiles, sqlFiles, dirs, content>>
ctorVars == <<dbName, ctors>>
backupVars == <<calls, clock, registered, firings>>
sessionVars == <<rl, backups, answer, selection, selectedBackup, confirmation,
                 prompts>>
vars == <<rootFiles, sqlFiles, dbName, clock, cmd, hpc, escaped, log, out,
          calls, registered, firings, rl, backups, answer, selection,
          selectedBackup, confirmation, prompts, fsFault, execs, dirs,
          content, ctors, listing>>

NoFault == [kind |-> "none", at |-> 0]

LogEntry(level, src, msg, database, error, call) ==
    [level |-> level, src |-> src, msg |-> msg, database |-> database,
     error |-> error, call |-> call, meta |-> <<>>]

Line(text, index, file) == [text |-> text, index |-> index, file |-> file]

\* the files found at start were written to the end by earlier runs
InitContent(root, sql) ==
    [p \in {join(backupDir, root[i]) : i \in 1..Len(root)}
            \cup {join(sqlDir, sql[i]) : i \in 1..Len(sql)}
        |-> [writer |-> 0, complete |-> TRUE]]

\* the directories before the first construction: none on a first run
DirsBefore(root, sql) ==
    IF root = <<>> /\ sql = <<>> THEN {} ELSE {backupDir, sqlDir}

NoListing == [sql |-> FALSE, files |-> <<>>]

\* everything but the orchestrator
InitRest ==
    /\ \E disk \in InitDisks : /\ rootFiles = disk.root /\ sqlFiles = disk.sql
                                /\ content = InitContent(disk.root, disk.sql)
    /\ clock = 0
    /\ hpc = "start"
    /\ escaped = {}
    /\ log = <<>>
    /\ out = <<>>
    /\ calls = <<>>
    /\ registered = FALSE
    /\ firings = 0
    /\ rl = "none"
    /\ backups = <<>>
    /\ answer = <<>>
    /\ selection = NaN
    /\ selectedBackup = <<>>
    /\ confirmation = <<>>
    /\ prompts = <<>>
    /\ fsFault = NoFault
    /\ execs = <<>>
    /\ listing = NoListing

\* index.ts 13 has run: `new PostgresBackup(process.env.BACKUP_DIR || ...)`
\* returned
InitCommon ==
    /\ InitRest
    /\ dbName \in DbNames
    /\ \E url \in MainUrls :
           /\ ctors = << construct(url, DirsBefore(rootFiles, sqlFiles), {}) >>
           /\ dbName = ctors[1].dbName
    /\ dirs = ctors[1].after

\* the last `new PostgresBackup(...)` returned an orchestrator
Constructed == Len(ctors) > 0 /\ ~ctors[Len(ctors)].thrown

\* the CLI process after `new PostgresBackup(...)`, before program.parse
Init == InitCommon /\ cmd = "none"

(***************************************************************************)
(* PostgresBackup.createBackup                                             *)
(***************************************************************************)
Dumps == {"sql", "backup"}
DumpError(which) == IF which = "sql" THEN "sqlDumpError" ELSE "backupDumpError"

\* lines 41-46: one timestamp, two file names, two paths
NewCall(caller, t, db, afterFailure) ==
    LET timestamp == replaceColonsAndPeriods(toISOString(t))
        sqlFilename == db \o BackupInfix \o timestamp \o SqlSuffix
        backupFilename == db \o BackupInfix \o timestamp \o BackupSuffix
    IN  [caller |-> caller, timestamp |-> timestamp,
         sqlFilename |-> sqlFilename, backupFilename |-> backupFilename,
         sqlPath |-> join(sqlDir, sqlFilename),
         backupPath |-> join(backupDir, backupFilename),
         dump |-> [w \in Dumps |-> "running"],
         all |-> [state |-> "pending", reason |-> "none"],
         st |-> "awaiting", error |-> "none", afterFailure |-> afterFailure,
         instant |-> t, value |-> <<>>]

\* a combinator that waits for every input to settle before it rejects
PromiseAllSettledThenReject(p, dump, which) ==
    IF p.state # "pending" \/ \E w \in Dumps : dump[w] = "running" THEN p
    ELSE IF \E w \in Dumps : dump[w] = "failed"
         THEN [state |-> "rejected",
               reason |-> DumpError(CHOOSE w \in Dumps : dump[w] = "failed")]
         ELSE [state |-> "fulfilled", reason |-> "none"]

\* Promise.all over the two execAsync promises, when the promise of dump
\* `which` settles: the first rejection rejects it at once, the last
\* fulfilment fulfils it, and a settled promise never changes
PromiseAll(p, dump, which) ==
    IF p.state # "pending" THEN p
    ELSE IF dump[which] = "failed"
         THEN [state |-> "rejected", reason |-> DumpError(which)]
         ELSE IF \A w \in Dumps : dump[w] = "ok"
              THEN [state |-> "fulfilled", reason |-> "none"]
              ELSE p

\* a catch block that logs and does not rethrow
createBackupSwallow(c, call, p) ==
    IF p.state = "fulfilled"
    THEN [st |-> "returned", error |-> "none",
          value |-> <<call.sqlPath, call.backupPath>>,
          log |-> << LogEntry("info", "orchestrator",
                              "Backups created successfully for database",
                              dbName, "none", c) >>]
    ELSE [st |-> "returned", error |-> "none", value |-> <<>>,
          log |-> << LogEntry("error", "orchestrator",
                              "Backup failed for database",
                              dbName, p.reason, c) >>]

\* lines 48-67: what createBackup does once `await Promise.all` settles
createBackupResume(c, call, p) ==
    IF p.state = "fulfilled"
    THEN [st |-> "returned", error |-> "none",
          value |-> <<call.sqlPath, call.backupPath>>,
          log |-> << [ LogEntry("info", "orchestrator",
                                "Backups created successfully for database",
                                dbName, "none", c)
                       EXCEPT !.meta = << call.sqlFilename, call.backupFilename,
                                          call.timestamp >> ] >>]
    ELSE [st |-> "thrown", error |-> p.reason, value |-> <<>>,
          log |-> << LogEntry("error", "orchestrator",
                              "Backup failed for database",
                              dbName, p.reason, c) >>]

\* index.ts 37-45: the backup command after `await backup.createBackup()`
backupAction(c, r) ==
    IF r.st = "returned"
    THEN [escaped |-> {},
          log |-> << LogEntry("info", "cli", "Backups created at:",
                              <<>>, "none", c) >>]
    ELSE [escaped |-> {},
          log |-> << LogEntry("error", "cli", "Backup failed:",
                              <<>>, r.error, c) >>]

\* a firing callback without its try/catch
cronCallbackNoCatch(c, r) ==
    IF r.st = "returned"
    THEN [escaped |-> {},
          log |-> << LogEntry("info", "cli", "Scheduled backup completed",
                              <<>>, "none", c) >>]
    ELSE [escaped |-> {"cron"}, log |-> <<>>]

\* index.ts 149-156: the firing callback after `await backup.createBackup()`
cronCallback(c, r) ==
    IF r.st = "returned"
    THEN [escaped |-> {},
          log |-> << LogEntry("info", "cli", "Scheduled backup completed",
                              <<>>, "none", c) >>]
    ELSE [escaped |-> {},
          log |-> << LogEntry("error", "cli", "Scheduled backup failed:",
                              <<>>, r.error, c) >>]

\* a directory after a child process created `name` in it; readdir lists
\* the names in a fixed order of the filesystem, here the files found at
\* start first, then the artifacts by the instant in their name
WithFile(dir, name, c) ==
    IF \E i \in 1..Len(dir) : dir[i] = name THEN dir
    ELSE LET before == SelectSeq(dir, LAMBDA f :
                 \A d \in c..Len(calls) :
                     f \notin {calls[d].sqlFilename, calls[d].backupFilename})
         IN  before \o <<name>> \o SubSeq(dir, Len(before) + 1, Len(dir))

\* index.ts 36-38: the backup command calls createBackup, which starts both
\* pg_dump processes and waits
BackupCmd(t) ==
    /\ Constructed
    /\ cmd = "none"
    /\ \A c \in 1..Len(calls) : calls[c].instant <= t
    /\ cmd' = "backup"
    /\ hpc' = "await"
    /\ clock' = t
    /\ calls' = Append(calls, NewCall("cli", t, dbName, FALSE))
    /\ UNCHANGED <<fsVars, ctorVars, escaped, log, out, registered, firings,
                   sessionVars, fsFault, listing, execs>>

\* index.ts 147-157: the schedule command registers the trigger and returns
ScheduleCmd ==
    /\ Constructed
    /\ cmd = "none"
    /\ cmd' = "schedule"
    /\ hpc' = "done"
    /\ registered' = TRUE
    /\ log' = Append(log, LogEntry("info", "cli", "Daily backups scheduled",
                                   <<>>, "none", 0))
    /\ UNCHANGED <<fsVars, ctorVars, clock, escaped, out, calls, firings,
                   sessionVars, fsFault, listing, execs>>

\* index.ts 149-151: the trigger fires at the next midnight and the
\* callback calls createBackup
Fire ==
    /\ registered
    /\ firings < MaxFirings
    /\ firings' = firings + 1
    /\ clock' = (firings + 1) * DayMs
    /\ calls' = Append(calls, NewCall("cron", (firings + 1) * DayMs, dbName,
                                      \E c \in 1..Len(calls) :
                                          calls[c].st = "thrown"))
    /\ UNCHANGED <<fsVars, ctorVars, cmd, hpc, escaped, log, out, registered,
                   sessionVars, fsFault, listing, execs>>

\* one pg_dump process of invocation c exits; the promise chain then runs
\* to the end: Promise.all, the rest of createBackup, the caller's try/catch
DumpExit(c, which, ok, wrote) ==
    /\ c \in 1..Len(calls)
    /\ calls[c].dump[which] = "running"
    /\ ok => wrote
    /\ LET call == calls[c]
           dump2 == [call.dump EXCEPT ![which] = IF ok THEN "ok" ELSE "failed"]
           all2 == PromiseAll(call.all, dump2, which)
           settles == call.all.state = "pending" /\ all2.state # "pending"
           r == createBackupResume(c, call, all2)
           k == IF call.caller = "cron" THEN cronCallback(c, r)
                                         ELSE backupAction(c, r)
           path == IF which = "sql" THEN call.sqlPath ELSE call.backupPath
       IN  /\ calls' = [calls EXCEPT ![c] =
                 [call EXCEPT !.dump = dump2, !.all = all2,
                              !.st = IF settles THEN r.st ELSE @,
                              !.error = IF settles THEN r.error ELSE @,
                              !.value = IF settles THEN r.value ELSE @]]
           /\ log' = IF settles THEN log \o r.log \o k.log ELSE log
           /\ escaped' = IF settles THEN escaped \cup k.escaped ELSE escaped
           /\ hpc' = IF settles /\ call.caller = "cli" THEN "done" ELSE hpc
           /\ rootFiles' = IF which = "backup" /\ wrote
                           THEN WithFile(rootFiles, call.backupFilename, c)
                           ELSE rootFiles
           /\ sqlFiles' = IF which = "sql" /\ wrote
                          THEN WithFile(sqlFiles, call.sqlFilename, c)
                          ELSE sqlFiles
           /\ content' = IF wrote
                         THEN [f \in DOMAIN content \cup {path} |->
                                  IF f = path
                                  THEN [writer |-> c, complete |-> ok]
                                  ELSE content[f]]
                         ELSE content
    /\ UNCHANGED dirs
    /\ UNCHANGED <<ctorVars, clock, cmd, out, registered, firings, sessionVars,
                   fsFault, listing, execs>>


(***************************************************************************)
(* PostgresBackup.restoreBackup, listBackups, listSqlDumps                 *)
(***************************************************************************)
\* a filter on the suffix occurring anywhere in the name
IsBackupNameLoose(file) == includes(file, BackupSuffix)

\* backup.ts 88, 96: the filters
IsBackupName(file) == endsWith(file, BackupSuffix)
IsSqlName(file) == endsWith(file, SqlSuffix)

\* readdirSync(backupDir) without the filter
listEverything(files) ==
    [i \in 1..Len(files) |-> join(backupDir, files[i])]

\* backup.ts 85-91, on the names readdirSync(backupDir) returned
listBackups(files) ==
    LET kept == SelectSeq(files, IsBackupName)
    IN  [i \in 1..Len(kept) |-> join(backupDir, kept[i])]

\* a listSqlDumps that joins the names to the root directory
listSqlDumpsRootPath(files) ==
    LET kept == SelectSeq(files, IsSqlName)
    IN  [i \in 1..Len(kept) |-> join(backupDir, kept[i])]

\* backup.ts 93-99, on the names readdirSync(sqlDir) returned
listSqlDumps(files) ==
    LET kept == SelectSeq(files, IsSqlName)
    IN  [i \in 1..Len(kept) |-> join(sqlDir, kept[i])]

\* a dispatch on the suffix occurring anywhere in the path
restoreCommandIncludes(backupPath) ==
    IF includes(backupPath, BackupSuffix) THEN "pg_restore" ELSE "psql"

\* backup.ts 72-74: the command line chosen for a path
restoreCommand(backupPath) ==
    IF endsWith(backupPath, BackupSuffix) THEN "pg_restore" ELSE "psql"

\* a restoreBackup whose catch block logs and does not rethrow
restoreBackupSwallow(backupPath, ok) ==
    IF ok
    THEN [st |-> "returned", error |-> "none",
          log |-> << [ LogEntry("info", "orchestrator",
                                "Restore completed successfully from:",
                                <<>>, "none", 0)
                       EXCEPT !.meta = <<backupPath>> ] >>]
    ELSE [st |-> "returned", error |-> "none",
          log |-> << LogEntry("error", "orchestrator", "Restore failed:",
                              <<>>, "restoreExecError", 0) >>]

\* backup.ts 76-82: what restoreBackup does once `await execAsync` settles
restoreBackupResume(backupPath, ok) ==
    IF ok
    THEN [st |-> "returned", error |-> "none",
          log |-> << [ LogEntry("info", "orchestrator",
                                "Restore completed successfully from:",
                                <<>>, "none", 0)
                       EXCEPT !.meta = <<backupPath>> ] >>]
    ELSE [st |-> "thrown", error |-> "restoreExecError",
          log |-> << LogEntry("error", "orchestrator", "Restore failed:",
                              <<>>, "restoreExecError", 0) >>]

NewExec(backupPath) ==
    [path |-> backupPath, command |-> restoreCommand(backupPath),
     status |-> "running", result |-> "pending"]

(***************************************************************************)
(* The restore command (index.ts 48-116).                                  *)
(***************************************************************************)
\* index.ts 99-112: the lines printed before a statSync fails, if one does
displayBackups(list, fault) ==
    LET n == IF fault.kind = "stat" THEN fault.at - 1 ELSE Len(list)
    IN  [thrown |-> fault.kind = "stat",
         out |-> << Line("Available backups (custom format):", 0, <<>>) >>
                 \o [i \in 1..n |-> Line("entry", (i - 1) + 1, basename(list[i]))]]

\* a selection computed without the offset
selectionOfNoOffset(a) == parseInt(a)

\* index.ts 72: Number.parseInt(answer) - 1
selectionOf(a) ==
    IF parseInt(a).nan THEN NaN ELSE Num(parseInt(a).val - 1)

\* index.ts 114-116
isValidSelection(sel, maxLength) ==
    ~sel.nan /\ sel.val >= 0 /\ sel.val < maxLength

\* index.ts 67
isQuit(a) == toLowerCase(a) = <<"q">>

\* a confirmation that accepts every answer starting with the token
isConfirmedPrefix(c) == Len(c) > 0 /\ toLowerCase(c)[1] = "y"

\* index.ts 85
isConfirmed(c) == toLowerCase(c) = <<"y">>

\* an exit path that leaves the interface as it is
finallySkip(r) == r

\* index.ts 94-96: rl.close() in the finally block
finallyClose(r) == "closed"

SelectPrompt(n) == [kind |-> "select", n |-> n, file |-> <<>>]
ConfirmPrompt(file) == [kind |-> "confirm", n |-> 0, file |-> file]

FsFaults(n) ==
    { NoFault, [kind |-> "readdir", at |-> 0] }
    \cup { [kind |-> "stat", at |-> i] : i \in 1..n }

\* index.ts 51-65: the handler up to the first question
RestoreCmd(fault) ==
    /\ Constructed
    /\ cmd = "none"
    /\ fault \in FsFaults(Len(listBackups(rootFiles)))
    /\ cmd' = "restore"
    /\ fsFault' = fault
    /\ UNCHANGED listing
    /\ LET list == listBackups(rootFiles)
           d == displayBackups(list, fault)
           failure == LogEntry("error", "cli", "Restore failed:", <<>>,
                               IF fault.kind = "readdir" THEN "readdirError"
                                                         ELSE "statError", 0)
       IN  IF fault.kind = "readdir"
           THEN /\ log' = Append(log, failure)
                /\ rl' = finallyClose("open")
                /\ hpc' = "done"
                /\ UNCHANGED <<backups, out, prompts>>
           ELSE IF Len(list) = 0
           THEN /\ backups' = list
                /\ out' = Append(out, Line("No backup files available", 0, <<>>))
                /\ rl' = finallyClose("open")
                /\ hpc' = "done"
                /\ UNCHANGED <<log, prompts>>
           ELSE IF d.thrown
           THEN /\ backups' = list
                /\ out' = out \o d.out
                /\ log' = Append(log, failure)
                /\ rl' = finallyClose("open")
                /\ hpc' = "done"
                /\ UNCHANGED prompts
           ELSE /\ backups' = list
                /\ out' = out \o d.out
                /\ prompts' = Append(prompts, SelectPrompt(Len(list)))
                /\ rl' = "open"
                /\ hpc' = "select"
                /\ UNCHANGED log
    /\ UNCHANGED <<fsVars, ctorVars, backupVars, escaped, answer, selection,
                   selectedBackup, confirmation, execs>>

\* index.ts 63-83: the Select answer arrives
SelectAnswered(a) ==
    /\ cmd = "restore" /\ hpc = "select"
    /\ answer' = a
    /\ IF isQuit(a)
       THEN /\ out' = Append(out, Line("Restore cancelled", 0, <<>>))
            /\ rl' = finallyClose(rl)
            /\ hpc' = "done"
            /\ UNCHANGED <<selection, selectedBackup, prompts>>
       ELSE IF ~isValidSelection(selectionOf(a), Len(backups))
       THEN /\ selection' = selectionOf(a)
            /\ out' = Append(out, Line("Invalid selection", 0, <<>>))
            /\ rl' = finallyClose(rl)
            /\ hpc' = "done"
            /\ UNCHANGED <<selectedBackup, prompts>>
       ELSE /\ selection' = selectionOf(a)
            /\ selectedBackup' = backups[selectionOf(a).val + 1]
            /\ prompts' = Append(prompts,
                   ConfirmPrompt(basename(backups[selectionOf(a).val + 1])))
            /\ hpc' = "confirm"
            /\ UNCHANGED <<out, rl>>
    /\ UNCHANGED <<fsVars, ctorVars, backupVars, cmd, escaped, log, backups,
                   confirmation, fsFault, listing, execs>>

\* index.ts 79-90: the Confirm answer arrives
ConfirmAnswered(c) ==
    /\ cmd = "restore" /\ hpc = "confirm"
    /\ confirmation' = c
    /\ IF ~isConfirmed(c)
       THEN /\ out' = Append(out, Line("Restore cancelled", 0, <<>>))
            /\ rl' = finallyClose(rl)
            /\ hpc' = "done"
            /\ UNCHANGED execs
       ELSE /\ execs' = Append(execs, NewExec(selectedBackup))
            /\ hpc' = "exec"
            /\ UNCHANGED <<out, rl>>
    /\ UNCHANGED <<fsVars, ctorVars, backupVars, cmd, escaped, log, backups,
                   answer, selection, selectedBackup, prompts, fsFault, listing>>

\* the restore child process exits: the rest of restoreBackup, then
\* index.ts 90-96
RestoreExit(ok) ==
    /\ cmd = "restore" /\ hpc = "exec"
    /\ execs[Len(execs)].status = "running"
    /\ LET r == restoreBackupResume(execs[Len(execs)].path, ok)
       IN  /\ execs' = [execs EXCEPT ![Len(execs)].status =
                                        IF ok THEN "ok" ELSE "failed",
                                     ![Len(execs)].result = r.st]
           /\ IF r.st = "returned"
              THEN /\ log' = log \o r.log
                   /\ out' = Append(out, Line("Restore completed successfully",
                                              0, <<>>))
              ELSE /\ log' = log \o r.log
                             \o << LogEntry("error", "cli", "Restore failed:",
                                            <<>>, r.error, 0) >>
                   /\ out' = out
    /\ rl' = finallyClose(rl)
    /\ hpc' = "done"
    /\ UNCHANGED <<fsVars, ctorVars, backupVars, cmd, escaped, backups, answer,
                   selection, selectedBackup, confirmation, prompts, fsFault, listing>>


(***************************************************************************)
(* The list command (index.ts 118-142): synchronous, no try/catch.         *)
(***************************************************************************)
ListCmd(sql, fault) ==
    /\ Constructed
    /\ cmd = "none"
    /\ cmd' = "list"
    /\ hpc' = "done"
    /\ LET files == IF sql THEN listSqlDumps(sqlFiles) ELSE listBackups(rootFiles)
           n == IF fault.kind = "stat" THEN fault.at - 1 ELSE Len(files)
       IN  /\ fault \in FsFaults(Len(files))
           /\ fsFault' = fault
           /\ listing' = [sql |-> sql,
                          files |-> IF fault.kind = "readdir" THEN <<>> ELSE files]
           /\ IF fault.kind = "readdir"
              THEN /\ escaped' = escaped \cup {"list"}
                   /\ out' = out
              ELSE IF Len(files) = 0
              THEN /\ escaped' = escaped
                   /\ out' = Append(out,
                          Line(IF sql THEN "No SQL dumps available"
                                      ELSE "No backups available", 0, <<>>))
              ELSE /\ escaped' = IF fault.kind = "stat"
                                 THEN escaped \cup {"list"} ELSE escaped
                   /\ out' = out
                        \o << Line(IF sql THEN "Available SQL dumps:"
                                          ELSE "Available backups:", 0, <<>>) >>
                        \o [i \in 1..n |-> Line("File:", 0, basename(files[i]))]
    /\ UNCHANGED <<fsVars, ctorVars, backupVars, log, sessionVars, execs>>

Next ==
    \/ \E t \in 0..MaxClock : BackupCmd(t)
    \/ ScheduleCmd
    \/ \E c \in 1..Len(calls), which \in Dumps, ok \in BOOLEAN, wrote \in BOOLEAN :
           DumpExit(c, which, ok, wrote)
    \/ cmd = "none" /\ \E fault \in FsFaults(Len(rootFiles)) : RestoreCmd(fault)
    \/ cmd = "restore" /\ \E a \in SelectAnswers : SelectAnswered(a)
    \/ cmd = "restore" /\ \E c \in ConfirmAnswers : ConfirmAnswered(c)
    \/ cmd = "restore" /\ \E ok \in BOOLEAN : RestoreExit(ok)
    \/ /\ cmd = "none"
       /\ \E sql \in BOOLEAN, fault \in FsFaults(Len(rootFiles) + Len(sqlFiles)) :
              ListCmd(sql, fault)

\* the CLI process: one command per run, up to the end of its handler
Spec == Init /\ [][Next]_vars

\* the long-lived process of the schedule command and its firings
NextSchedule ==
    \/ ScheduleCmd
    \/ Fire
    \/ \E c \in 1..Len(calls), which \in Dumps, ok \in BOOLEAN, wrote \in BOOLEAN :
           DumpExit(c, which, ok, wrote)

SpecSchedule == Init /\ [][NextSchedule]_vars

(***************************************************************************)
(* A library client that calls restoreBackup directly.                     *)
(***************************************************************************)
InitApi == InitCommon /\ cmd = "api"

\* backup.ts 70-77: restoreBackup(p) up to `await execAsync(command)`
ApiRestoreCall(p) ==
    /\ cmd = "api" /\ hpc \in {"start", "done"}
    /\ Len(execs) < MaxApiCalls
    /\ execs' = Append(execs, NewExec(p))
    /\ hpc' = "exec"
    /\ UNCHANGED <<fsVars, ctorVars, backupVars, cmd, escaped, log, out,
                   sessionVars, fsFault, listing>>

\* backup.ts 77-82: the child process exits
ApiRestoreExit(ok) ==
    /\ cmd = "api" /\ hpc = "exec"
    /\ LET r == restoreBackupResume(execs[Len(execs)].path, ok)
       IN  /\ execs' = [execs EXCEPT ![Len(execs)].status =
                                        IF ok THEN "ok" ELSE "failed",
                                     ![Len(execs)].result = r.st]
           /\ log' = log \o r.log
    /\ hpc' = "done"
    /\ UNCHANGED <<fsVars, ctorVars, backupVars, cmd, escaped, out,
                   sessionVars, fsFault, listing>>

NextApi ==
    \/ \E p \in ApiPaths : ApiRestoreCall(p)
    \/ \E ok \in BOOLEAN : ApiRestoreExit(ok)

SpecApi == InitApi /\ [][NextApi]_vars

(***************************************************************************)
(* The restore session alone (index.ts 51-97), with every prompt answered  *)
(* in the end and the child process of the restore exiting in the end.     *)
(***************************************************************************)
NextRestore ==
    \/ \E fault \in FsFaults(Len(rootFiles)) : RestoreCmd(fault)
    \/ \E a \in SelectAnswers : SelectAnswered(a)
    \/ \E c \in ConfirmAnswers : ConfirmAnswered(c)
    \/ \E ok \in BOOLEAN : RestoreExit(ok)

SpecRestore ==
    /\ Init
    /\ [][NextRestore]_vars
    /\ WF_vars(\E a \in SelectAnswers : SelectAnswered(a))
    /\ WF_vars(\E c \in ConfirmAnswers : ConfirmAnswered(c))
    /\ WF_vars(\E ok \in BOOLEAN : RestoreExit(ok))

(***************************************************************************)
(* The constructor (backup.ts 14-19).                                      *)
(***************************************************************************)
\* mkdirSync may be refused for one of the two directories
DeniedSets == { {}, {backupDir}, {sqlDir} }

\* before any `new PostgresBackup(...)`
PreConstruction ==
    /\ InitRest
    /\ ctors = <<>>
    /\ dbName = <<>>

\* `new PostgresBackup(backupDir)` with DATABASE_URL = url
Construct(url, denied) ==
    /\ LET r == construct(url, dirs, denied)
       IN  /\ ctors' = Append(ctors, r)
           /\ dirs' = r.after
           /\ dbName' = IF r.thrown THEN dbName ELSE r.dbName
    /\ UNCHANGED <<rootFiles, sqlFiles, content, backupVars, cmd, hpc, escaped,
                   log, out, sessionVars, fsFault, listing, execs>>

\* a library client that constructs orchestrators on one root; the root may
\* exist without its sql subdirectory
InitCtor ==
    /\ PreConstruction
    /\ cmd = "api"
    /\ dirs \in { d \in SUBSET {backupDir, sqlDir} :
                    /\ DirsBefore(rootFiles, sqlFiles) \subseteq d
                    /\ sqlDir \in d => backupDir \in d }

NextCtor ==
    /\ Len(ctors) < MaxConstructs
    /\ \E url \in DbUrls, denied \in DeniedSets : Construct(url, denied)

SpecCtor == InitCtor /\ [][NextCtor]_vars

(***************************************************************************)
(* The CLI process from its first statement: index.ts 13 constructs the    *)
(* orchestrator, then program.parse dispatches one command; the schedule   *)
(* command leaves the process running.                                     *)
(***************************************************************************)
\* a first run, on no directory, or a run on the fullest of InitDisks
InitProcess ==
    /\ PreConstruction
    /\ cmd = "none"
    /\ Len(rootFiles) \in {0, 4}
    /\ dirs = DirsBefore(rootFiles, sqlFiles)

NextProcess ==
    \/ /\ ctors = <<>>
       /\ \E url \in MainUrls, denied \in DeniedSets :
              denied \cap dirs = {} /\ Construct(url, denied)
    \/ Next
    \/ Fire

SpecProcess == InitProcess /\ [][NextProcess]_vars

(***************************************************************************)
(* Two processes on the same directories and the same DATABASE_URL: this   *)
(* one runs the backup command, and so does another one.                   *)
(***************************************************************************)
\* index.ts 36-38 in the other process, whose new Date() reads t
PeerBackupCmd(t) ==
    /\ Constructed
    /\ \A c \in 1..Len(calls) : calls[c].caller # "peer" /\ calls[c].instant <= t
    /\ calls' = Append(calls, NewCall("peer", t, dbName, FALSE))
    /\ UNCHANGED <<fsVars, ctorVars, clock, registered, firings, cmd, hpc,
                   escaped, log, out, sessionVars, fsFault, listing, execs>>

NextOverlap ==
    \/ \E t \in 0..MaxClock : BackupCmd(t)
    \/ \E t \in 0..MaxClock : PeerBackupCmd(t)
    \/ \E c \in 1..Len(calls), which \in Dumps, ok \in BOOLEAN, wrote \in BOOLEAN :
           DumpExit(c, which, ok, wrote)

SpecOverlap == Init /\ [][NextOverlap]_vars


(***************************************************************************)
(* Properties.                                                             *)
(***************************************************************************)
HasLog(level, src, msg, c) ==
    \E i \in 1..Len(log) :
        /\ log[i].level = level /\ log[i].src = src
        /\ log[i].msg = msg /\ log[i].call = c

SuccessMsg == "Backups created successfully for database"
FailureMsg == "Backup failed for database"

LastOut == IF Len(out) = 0 THEN "" ELSE out[Len(out)].text

\* the decimal numeral of a natural number
RECURSIVE Decimal(_)
Decimal(k) ==
    IF k < 10 THEN <<DecDigits[k + 1]>>
    ELSE Decimal(k \div 10) \o <<DecDigits[(k % 10) + 1]>>

RECURSIVE TrimEnd(_)
TrimEnd(s) ==
    IF Len(s) > 0 /\ s[Len(s)] \in WhiteSpace
    THEN TrimEnd(SubSeq(s, 1, Len(s) - 1)) ELSE s

\* an optionally signed run of decimal digits, blanks around it ignored
IsNumericToken(a) ==
    LET t == TrimEnd(TrimStart(a))
        d == IF Len(t) > 0 /\ t[1] \in {"-", "+"} THEN Tail(t) ELSE t
    IN  Len(d) > 0 /\ \A i \in 1..Len(d) : IndexOf(DecDigits, d[i]) > 0

\* the value of a numeric token
RECURSIVE DecimalValue(_)
DecimalValue(d) ==
    IF Len(d) = 0 THEN 0
    ELSE 10 * DecimalValue(SubSeq(d, 1, Len(d) - 1))
         + (IndexOf(DecDigits, d[Len(d)]) - 1)

TokenValue(a) ==
    LET t == TrimEnd(TrimStart(a))
    IN  IF t[1] = "-" THEN 0 - DecimalValue(Tail(t))
        ELSE IF t[1] = "+" THEN DecimalValue(Tail(t))
        ELSE DecimalValue(t)

SelectWasAnswered ==
    cmd = "restore" /\ Len(prompts) >= 1 /\ hpc \in {"confirm", "exec", "done"}
ConfirmWasAnswered ==
    cmd = "restore" /\ Len(prompts) = 2 /\ hpc \in {"exec", "done"}
Affirmative == { <<"y">>, <<"Y">> }
SessionCancelled ==
    /\ hpc = "done" /\ rl # "open"
    /\ LastOut \in {"Restore cancelled", "Invalid selection"}
    /\ log = <<>> /\ escaped = {}

\* C1: createBackup returns (with the success log) only if both dump
\* invocations succeeded; if either fails it throws that failure, after an
\* error log of the orchestrator that carries the database identifier, and
\* without a success log.
C1_BothOrFailure ==
    \A c \in 1..Len(calls) :
        LET call == calls[c] IN
        /\ call.st = "returned" =>
              /\ \A w \in Dumps : call.dump[w] = "ok"
              /\ HasLog("info", "orchestrator", SuccessMsg, c)
              /\ ~HasLog("error", "orchestrator", FailureMsg, c)
        /\ (\E w \in Dumps : call.dump[w] = "failed") => call.st = "thrown"
        /\ call.st = "thrown" =>
              /\ \E w \in Dumps : call.dump[w] = "failed" /\ call.error = DumpError(w)
              /\ \E i \in 1..Len(log) :
                    /\ log[i].level = "error" /\ log[i].src = "orchestrator"
                    /\ log[i].msg = FailureMsg /\ log[i].call = c
                    /\ log[i].database = dbName /\ log[i].error = call.error
                    /\ \A j \in 1..Len(log) :
                          (log[j].src = "cli" /\ log[j].call = c) =>
                              (i < j /\ log[j].level = "error"
                                     /\ log[j].error = call.error)
              /\ ~HasLog("info", "orchestrator", SuccessMsg, c)

C1_Witness ==
    \E c \in 1..Len(calls) :
        /\ calls[c].st = "thrown" /\ calls[c].error = "backupDumpError"
        /\ calls[c].dump["sql"] = "ok" /\ calls[c].dump["backup"] = "failed"
        /\ HasLog("error", "orchestrator", FailureMsg, c)

\* C2 as claimed: createBackup completes, with success or with failure,
\* only when both dump invocations have finished.
C2_JoinSemantics ==
    \A c \in 1..Len(calls) :
        calls[c].st # "awaiting" => \A w \in Dumps : calls[c].dump[w] # "running"

\* C2 as amended: createBackup starts both dump invocations together and
\* returns only when both have finished successfully; it throws as soon as
\* the first of them fails, without waiting for the other one.
C2_JoinOnSuccessFailFast ==
    \A c \in 1..Len(calls) :
        LET call == calls[c] IN
        /\ call.st = "returned" => \A w \in Dumps : call.dump[w] = "ok"
        /\ call.st = "awaiting" =>
              /\ \E w \in Dumps : call.dump[w] = "running"
              /\ \A w \in Dumps : call.dump[w] # "failed"
        /\ call.st = "thrown" => \E w \in Dumps : call.dump[w] = "failed"

C2_Witness ==
    \E c \in 1..Len(calls) :
        /\ calls[c].st = "thrown"
        /\ calls[c].dump["sql"] = "failed" /\ calls[c].dump["backup"] = "running"

\* C3: with N >= 1 artifacts listed, the decimal numeral of an index k in
\* 1..N at Select and the affirmative token at Confirm invoke restoreBackup
\* exactly once, on the k-th path of the list enumerated at List.
C3_ValidIndexRestoresThatPath ==
    cmd = "restore" =>
        /\ Len(execs) <= 1
        /\ \A k \in 1..Len(backups) :
              (ConfirmWasAnswered /\ answer = Decimal(k)
                                  /\ confirmation \in Affirmative) =>
                  /\ Len(execs) = 1
                  /\ execs[1].path = backups[(k - 1) + 1]
                  /\ backups = [i \in 1..Len(backups) |->
                        join(backupDir,
                             SelectSeq(rootFiles,
                                 LAMBDA f : f \in {ABackup, BBackup})[i])]

C3_Witness ==
    /\ cmd = "restore" /\ hpc = "done"
    /\ Len(backups) = 2
    /\ answer = <<"2">> /\ confirmation = <<"Y">>
    /\ Len(execs) = 1 /\ execs[1].path = join(backupDir, ABackup)
    /\ execs[1].status = "ok"

\* C4 as claimed: a Select answer that is the quit sentinel in any letter
\* case, an out-of-range index or a non-numeric token ends the session as
\* Cancelled, with no Confirm prompt and no restoreBackup invocation.
C4_BadSelectionCancels ==
    (/\ SelectWasAnswered
     /\ \/ answer \in { <<"q">>, <<"Q">> }
        \/ ~IsNumericToken(answer)
        \/ IsNumericToken(answer) /\ TokenValue(answer) \notin 1..Len(backups))
    => /\ SessionCancelled
       /\ Len(prompts) = 1
       /\ execs = <<>>

\* C5: restoreBackup is invoked only after a Confirm answer that is the
\* affirmative token in either letter case; any other Confirm answer, the
\* empty one included, ends the session as Cancelled without invoking it.
C5_RestoreOnlyOnAffirmative ==
    cmd = "restore" =>
        /\ Len(execs) > 0 => (ConfirmWasAnswered /\ confirmation \in Affirmative)
        /\ (ConfirmWasAnswered /\ confirmation \notin Affirmative) =>
              /\ SessionCancelled
              /\ LastOut = "Restore cancelled"
              /\ execs = <<>>

C5_Witness ==
    /\ ConfirmWasAnswered /\ confirmation = <<>>
    /\ hpc = "done" /\ execs = <<>> /\ LastOut = "Restore cancelled"

\* C6: no restore session ends with its readline interface still open,
\* whichever way it ends, and the interface is open only while the session
\* waits for an answer or for the restore process.
C6_ChannelReleased ==
    cmd = "restore" =>
        /\ hpc = "done" => rl = "closed"
        /\ rl = "open" => hpc \in {"select", "confirm", "exec"}

C6_Witness ==
    /\ cmd = "restore" /\ hpc = "done" /\ rl = "closed"
    /\ fsFault.kind = "stat" /\ fsFault.at = 2
    /\ HasLog("error", "cli", "Restore failed:", 0)

\* C7: a restore session over a root directory without custom-format
\* artifacts ends at List with the informational message: no prompt, no
\* restoreBackup invocation, no error.
C7_EmptyListEndsAtList ==
    (/\ cmd = "restore"
     /\ fsFault.kind # "readdir"
     /\ \A i \in 1..Len(rootFiles) : rootFiles[i] \notin {ABackup, BBackup})
    => /\ hpc = "done"
       /\ out = << Line("No backup files available", 0, <<>>) >>
       /\ prompts = <<>> /\ execs = <<>>
       /\ log = <<>> /\ escaped = {}

C7_Witness ==
    /\ cmd = "restore" /\ hpc = "done"
    /\ rootFiles = <<ASql>> /\ backups = <<>>
    /\ LastOut = "No backup files available" /\ prompts = <<>>

\* C8: restoreBackup runs the clean-restore command for every path ending
\* in `.backup` and the plain-SQL command for every other path, one child
\* process per call; it returns only if that process succeeded, and
\* otherwise logs the failure and throws.
C8_DispatchBySuffix ==
    /\ Len(log) = Cardinality({ i \in 1..Len(execs) : execs[i].status # "running" })
    /\ \A i \in 1..Len(execs) :
        LET e == execs[i] IN
        /\ e.path \in CleanRestorePaths => e.command = "pg_restore"
        /\ e.path \in PlainSqlPaths => e.command = "psql"
        /\ e.status = "running" => e.result = "pending"
        /\ e.status = "ok" =>
              /\ e.result = "returned"
              /\ log[i].level = "info" /\ log[i].meta = <<e.path>>
        /\ e.status = "failed" =>
              /\ e.result = "thrown"
              /\ log[i].level = "error" /\ log[i].msg = "Restore failed:"

C8_Witness ==
    \E i \in 1..Len(execs) :
        /\ execs[i].path = Foo \o BackupSuffix \o <<"x">>
        /\ execs[i].command = "psql"
        /\ execs[i].status = "failed" /\ execs[i].result = "thrown"

\* C9: once the trigger is registered every firing invokes createBackup
\* exactly once; a failed createBackup is logged by the firing callback and
\* no exception leaves the callback; the trigger stays registered and the
\* next firing remains possible.
C9_FiringsInvokeAndContinue ==
    /\ Len(calls) = firings
    /\ \A c \in 1..Len(calls) :
          /\ calls[c].caller = "cron"
          /\ calls[c].st = "thrown" =>
                HasLog("error", "cli", "Scheduled backup failed:", c)
          /\ calls[c].st = "returned" =>
                HasLog("info", "cli", "Scheduled backup completed", c)
    /\ escaped = {}
    /\ cmd = "schedule" => registered
    /\ (cmd = "schedule" /\ firings < MaxFirings) => ENABLED Fire

C9_Witness ==
    /\ Len(calls) >= 2
    /\ calls[1].st = "thrown"
    /\ calls[2].afterFailure /\ calls[2].caller = "cron"
    /\ HasLog("error", "cli", "Scheduled backup failed:", 1)

\* C10 as claimed: no exception leaves the handler of any command.
C10_NoFailureEscapes == escaped = {}

\* C11 as claimed: every failure of createBackup, restoreBackup, listBackups
\* and listSqlDumps is logged by the orchestrator before the caller sees it,
\* and none is swallowed.
C11_FailuresLoggedAtDetection ==
    /\ \A c \in 1..Len(calls) :
          /\ calls[c].st = "thrown" =>
                HasLog("error", "orchestrator", FailureMsg, c)
          /\ (calls[c].st # "awaiting" /\ \E w \in Dumps : calls[c].dump[w] = "failed")
                => calls[c].st = "thrown"
    /\ \A i \in 1..Len(execs) :
          /\ execs[i].result = "thrown" =>
                \E j \in 1..Len(log) : /\ log[j].src = "orchestrator"
                                       /\ log[j].level = "error"
                                       /\ log[j].msg = "Restore failed:"
          /\ execs[i].status = "failed" => execs[i].result = "thrown"
    /\ fsFault.kind = "readdir" =>
          \E j \in 1..Len(log) : /\ log[j].src = "orchestrator"
                                 /\ log[j].level = "error"

\* C12 as claimed: any two createBackup invocations, overlapping ones of
\* two processes included, target distinct artifact paths, so none writes
\* to the path of an artifact created by another.
C12_DistinctArtifactPaths ==
    \A c, d \in 1..Len(calls) :
        c # d => /\ calls[c].sqlPath # calls[d].sqlPath
                 /\ calls[c].backupPath # calls[d].backupPath
                 /\ \A f \in DOMAIN content :
                        content[f].writer = d =>
                            f \notin {calls[c].sqlPath, calls[c].backupPath}

\* the name stem createBackup is to use at the first instants of
\* 2024-01-01, written out
ExpectedStem(t) ==
    dbName \o <<"-","b","a","c","k","u","p","-">>
           \o <<"2","0","2","4","-","0","1","-","0","1","T">>
           \o <<"0","0","-","0","0","-","0","0","-","0","0">>
           \o <<DecDigits[t + 1], "Z">>

\* C13: an invocation at instant T targets exactly two files,
\* backups/sql/<db>-backup-<T>.sql and backups/<db>-backup-<T>.backup, with
\* the same identifier and the same T, whose colons and periods are
\* hyphens; it writes no other file, and when it succeeds it returns these
\* two paths and both files are on disk.
C13_TwoPathsOneTimestamp ==
    \A c \in 1..Len(calls) :
        LET call == calls[c]
            sqlTarget == <<"b","a","c","k","u","p","s","/","s","q","l","/">>
                         \o ExpectedStem(call.instant) \o <<".","s","q","l">>
            backupTarget == <<"b","a","c","k","u","p","s","/">>
                            \o ExpectedStem(call.instant)
                            \o <<".","b","a","c","k","u","p">>
        IN  call.instant < 10 =>
            /\ call.sqlPath = sqlTarget
            /\ call.backupPath = backupTarget
            /\ \A f \in DOMAIN content :
                   content[f].writer = c => f \in {sqlTarget, backupTarget}
            /\ call.st = "returned" =>
                   /\ call.value = <<sqlTarget, backupTarget>>
                   /\ \A f \in {sqlTarget, backupTarget} :
                          /\ f \in DOMAIN content
                          /\ content[f] = [writer |-> c, complete |-> TRUE]
                   /\ \E i \in 1..Len(sqlFiles) :
                          join(sqlDir, sqlFiles[i]) = sqlTarget
                   /\ \E i \in 1..Len(rootFiles) :
                          join(backupDir, rootFiles[i]) = backupTarget
            /\ call.st # "returned" => call.value = <<>>

C13_Witness ==
    /\ cmd = "backup" /\ hpc = "done"
    /\ Len(calls) = 1 /\ calls[1].instant = 1
    /\ calls[1].st = "returned"
    /\ Len(calls[1].value) = 2

\* the connection strings of DbUrls that have a path component beginning
\* with the separator, each with that path written out
HierPaths ==
    { <<UrlPlain, <<"/","a","p","p">>>>, <<UrlFull, <<"/","a","p","p">>>>,
      <<UrlEmptyHost, <<"/","a","p","p">>>>, <<UrlNested, <<"/","a","/","b">>>>,
      <<UrlSlash, <<"/">>>> }

\* the connection strings of DbUrls that are absent or are not URLs
Unparsable == { UrlAbsent, UrlNoScheme, UrlBadPort }

\* C14 as claimed: extractDbName never throws; for a connection string with
\* path p it returns p without its leading separator, whatever is left; for
\* an absent or unparsable string it returns "unknown-db"; construction
\* never fails because of the connection string.
C14_PathStrippedOrSentinel ==
    \A i \in 1..Len(ctors) :
        /\ ctors[i].cause # "url"
        /\ ~ctors[i].thrown =>
              /\ \A pr \in HierPaths :
                     ctors[i].url = pr[1] => ctors[i].dbName = Tail(pr[2])
              /\ ctors[i].url \in Unparsable => ctors[i].dbName = UnknownDb

\* C14, amended: extractDbName never throws; for a connection string whose
\* path p begins with the separator it returns p without the separator when
\* that is not empty and "unknown-db" when it is empty; for an absent or
\* unparsable string it returns "unknown-db"; a construction that fails
\* fails in createDirectories, on a missing directory whose creation is
\* refused.
C14_PathStrippedNonEmptyOrSentinel ==
    \A i \in 1..Len(ctors) :
        /\ ctors[i].cause # "url"
        /\ ctors[i].thrown =>
              \E d \in ctors[i].denied : d \notin ctors[i].before
        /\ ~ctors[i].thrown =>
              /\ \A pr \in HierPaths :
                     ctors[i].url = pr[1] =>
                         ctors[i].dbName = IF Tail(pr[2]) = <<>> THEN UnknownDb
                                                                ELSE Tail(pr[2])
              /\ ctors[i].url \in Unparsable => ctors[i].dbName = UnknownDb

C14_Witness ==
    /\ Len(ctors) = 2
    /\ ctors[1].url = UrlSlash /\ ~ctors[1].thrown
    /\ ctors[1].dbName = UnknownDb
    /\ ctors[2].url = UrlBadPort /\ ~ctors[2].thrown
    /\ ctors[2].dbName = UnknownDb /\ dbName = UnknownDb

\* the names of InitDisks of each kind, and the directories, written out
CustomFormatNames == { <<"a",".","b","a","c","k","u","p">>,
                       <<"b",".","b","a","c","k","u","p">> }
PlainSqlNames == { <<"a",".","s","q","l">> }
RootPrefix == <<"b","a","c","k","u","p","s","/">>
SqlPrefix == <<"b","a","c","k","u","p","s","/","s","q","l","/">>

\* the members of a set among the elements of a sequence, in its order,
\* each after a prefix
RECURSIVE Kept(_, _, _)
Kept(dir, names, prefix) ==
    IF dir = <<>> THEN <<>>
    ELSE (IF Head(dir) \in names THEN << prefix \o Head(dir) >> ELSE <<>>)
         \o Kept(Tail(dir), names, prefix)

\* C15: listBackups returns exactly the `.backup` files of the root
\* directory and listSqlDumps exactly the `.sql` files of the sql
\* subdirectory, as full paths in directory-listing order; a file of the
\* other kind or of another suffix is not returned.
C15_ListsExactlyBySuffix ==
    /\ (cmd = "list" /\ fsFault.kind # "readdir") =>
          listing.files = IF listing.sql
                          THEN Kept(sqlFiles, PlainSqlNames, SqlPrefix)
                          ELSE Kept(rootFiles, CustomFormatNames, RootPrefix)
    /\ (cmd = "restore" /\ fsFault.kind # "readdir") =>
          backups = Kept(rootFiles, CustomFormatNames, RootPrefix)

C15_Witness ==
    /\ cmd = "list" /\ fsFault.kind = "none" /\ listing.sql
    /\ Len(sqlFiles) = 2 /\ Len(listing.files) = 1
    /\ listing.files[1] = SqlPrefix \o <<"a",".","s","q","l">>

\* C16: whenever createBackup, listBackups or listSqlDumps runs (a command
\* was dispatched, or a firing called createBackup), the root directory and
\* its sql subdirectory both exist; in a process whose constructor threw, no
\* operation runs.
C16_DirectoriesExistWhenOperating ==
    /\ (cmd # "none" \/ calls # <<>> \/ registered) =>
          /\ <<"b","a","c","k","u","p","s">> \in dirs
          /\ <<"b","a","c","k","u","p","s","/","s","q","l">> \in dirs
    /\ (ctors # <<>> /\ ctors[1].thrown) =>
          cmd = "none" /\ calls = <<>> /\ ~registered

C16_Witness ==
    /\ Len(ctors) = 1 /\ ctors[1].before = {} /\ ~ctors[1].thrown
    /\ cmd = "schedule" /\ firings = 2
    /\ Len(calls) = 2 /\ calls[2].st = "returned"
    /\ Cardinality(dirs) = 2

\* C17: createDirectories is idempotent: a call after one that returned
\* raises no error, whatever mkdirSync would refuse, and leaves the same
\* tree, which is the root directory and its sql subdirectory; a call
\* removes nothing; a call throws exactly when the creation of a directory
\* that is missing is refused.
C17_EnsureDirectoriesIdempotent ==
    \A i \in 1..Len(ctors) :
        LET r == ctors[i]
            both == { <<"b","a","c","k","u","p","s">>,
                      <<"b","a","c","k","u","p","s","/","s","q","l">> }
        IN  /\ r.thrown <=> (both \ r.before) \cap r.denied # {}
            /\ ~r.thrown => r.after = both
            /\ r.before \subseteq r.after
            /\ (i > 1 /\ ~ctors[i - 1].thrown) =>
                  ~r.thrown /\ r.after = ctors[i - 1].after

C17_Witness ==
    /\ Len(ctors) = 2
    /\ ctors[1].before = {} /\ ctors[1].denied = {} /\ ~ctors[1].thrown
    /\ ctors[2].denied # {} /\ ~ctors[2].thrown
    /\ ctors[2].after = ctors[1].after /\ dirs = {backupDir, sqlDir}

\* C18 as claimed: no step of createBackup deletes or modifies a file that
\* exists: every file on disk stays listed and keeps its content, be it the
\* output of the sibling dump of a failing invocation or an artifact of
\* another invocation.
C18_NeverDeletesOrModifies ==
    [][ /\ \A f \in DOMAIN content :
               f \in DOMAIN content' /\ content'[f] = content[f]
        /\ \A i \in 1..Len(rootFiles) :
               \E j \in 1..Len(rootFiles') : rootFiles'[j] = rootFiles[i]
        /\ \A i \in 1..Len(sqlFiles) :
               \E j \in 1..Len(sqlFiles') : sqlFiles'[j] = sqlFiles[i] ]_vars

\* how a restore session ended, by what it printed and logged
SessionEnded == cmd = "restore" /\ hpc = "done"
SessionFailed ==
    /\ SessionEnded
    /\ \E i \in 1..Len(log) : /\ log[i].src = "cli" /\ log[i].level = "error"
                              /\ log[i].msg = "Restore failed:"
SessionCompleted ==
    /\ SessionEnded
    /\ LastOut = "Restore completed successfully"
    /\ \A i \in 1..Len(log) : log[i].level # "error"
SessionNotPerformed ==
    /\ SessionEnded
    /\ LastOut \in {"No backup files available", "Restore cancelled",
                    "Invalid selection"}
    /\ log = <<>> /\ execs = <<>>

\* C19: a restore session starts by listing, before any prompt; when every
\* prompt is answered in the end and the restore child process exits in the
\* end, the session ends, in exactly one of Cancelled (nothing restored, no
\* error; the exit at List with no artifact counts here), Completed and
\* Failed, and stays there; Completed only if restoreBackup succeeded,
\* Failed only if listing, display or restoreBackup failed.
C19_SessionEndsInOneTerminalState ==
    /\ (cmd = "restore") ~> SessionEnded
    /\ [][(cmd = "none" /\ cmd' = "restore") =>
             /\ prompts = <<>> /\ execs' = <<>>
             /\ fsFault'.kind = "readdir"
                  \/ backups' = Kept(rootFiles, CustomFormatNames, RootPrefix)
             /\ Len(prompts') <= 1]_vars
    /\ [][SessionEnded => UNCHANGED vars]_vars
    /\ [](SessionEnded =>
            /\ \/ SessionNotPerformed /\ ~SessionCompleted /\ ~SessionFailed
               \/ ~SessionNotPerformed /\ SessionCompleted /\ ~SessionFailed
               \/ ~SessionNotPerformed /\ ~SessionCompleted /\ SessionFailed
            /\ SessionCompleted =>
                  /\ Len(execs) = 1 /\ execs[1].status = "ok"
                  /\ execs[1].result = "returned"
            /\ SessionFailed =>
                  \/ fsFault.kind \in {"readdir", "stat"}
                  \/ Len(execs) = 1 /\ execs[1].status = "failed")

C19_Witness ==
    /\ SessionFailed
    /\ Len(prompts) = 2 /\ Len(execs) = 1
    /\ execs[1].status = "failed" /\ rl = "closed"

\* C20: every restore started by the interactive session is of a path that
\* listBackups returned and that ends in `.backup`, and runs pg_restore
\* (--clean --if-exists), never psql.
C20_SessionUsesCleanRestore ==
    cmd = "restore" =>
        \A i \in 1..Len(execs) :
            /\ execs[i].command = "pg_restore"
            /\ \E k \in 1..Len(backups) : backups[k] = execs[i].path
            /\ \E n \in CustomFormatNames : execs[i].path = RootPrefix \o n

C20_Witness ==
    /\ cmd = "restore" /\ hpc = "done"
    /\ Len(rootFiles) = 4 /\ Len(backups) = 2
    /\ Len(execs) = 1 /\ execs[1].status = "ok"
    /\ execs[1].command = "pg_restore"
    /\ execs[1].path = RootPrefix \o <<"a",".","b","a","c","k","u","p">>

=============================================================================
